---- MODULE Spec2Model ----
(***************************************************************************)
(* A model of babybear's DataFrame (src/babybear/babybear.py).             *)
(*                                                                         *)
(* Python objects are modelled with their identity: every row dictionary   *)
(* is a cell of `heap`, and a DataFrame's `data` list holds references     *)
(* (heap indices), so that two frames holding the same dictionary object   *)
(* can be told apart from two frames holding equal copies.                 *)
(* A dictionary is an insertion-ordered sequence of <<key, value>> pairs.  *)
(* A string is a sequence of one-character strings.                        *)
(***************************************************************************)
EXTENDS Integers, Sequences, FiniteSets, TLC

VARIABLES heap, frames, origin, last, file

vars == <<heap, frames, origin, last, file>>

\* Bounds of the exploration.
MaxRows == 2
MaxStores == 2

\* Column names and cell values the caller uses.
Names == {<<"a">>, <<"b">>}
Cells == {<<"x">>, <<"X">>}

----------------------------------------------------------------------------
\* Python dict, as an insertion-ordered sequence of <<key, value>> pairs.

\* list(d.keys())
Keys(d) == [i \in 1..Len(d) |-> d[i][1]]

KeySet(d) == {d[i][1] : i \in 1..Len(d)}

\* k in d
HasKey(d, k) == k \in KeySet(d)

\* d[k], for a key that is present
Get(d, k) == d[CHOOSE i \in 1..Len(d) : d[i][1] = k][2]

\* d[k] = v: an existing key keeps its position, a new key goes last
SetItem(d, k, v) ==
    IF HasKey(d, k)
    THEN [i \in 1..Len(d) |-> IF d[i][1] = k THEN <<k, v>> ELSE d[i]]
    ELSE Append(d, <<k, v>>)

\* {c: row[c] for c in fields}, from position i on; KeyError when row lacks c
RECURSIVE DictCompFrom(_, _, _, _)
DictCompFrom(fields, row, i, acc) ==
    IF i > Len(fields) THEN [status |-> "ok", dict |-> acc]
    ELSE IF ~HasKey(row, fields[i]) THEN [status |-> "KeyError", dict |-> <<>>]
    ELSE DictCompFrom(fields, row, i + 1, SetItem(acc, fields[i], Get(row, fields[i])))

DictComp(fields, row) == DictCompFrom(fields, row, 1, <<>>)

----------------------------------------------------------------------------
\* The callables a caller passes in.

UpperChar(c) == IF c = "x" THEN "X" ELSE c
SwapChar(c) == IF c = "x" THEN "X" ELSE IF c = "X" THEN "x" ELSE c

\* func of apply: str.upper and str.swapcase
Funcs == {"upper", "swapcase"}

CallFunc(f, v) ==
    IF f = "upper" THEN [i \in 1..Len(v) |-> UpperChar(v[i])]
    ELSE [i \in 1..Len(v) |-> SwapChar(v[i])]

\* predicate of where: lambda r: True, lambda r: False, lambda r: r[col] == val
Preds == {[kind |-> "const", val |-> b] : b \in BOOLEAN}
         \cup {[kind |-> "eq", col |-> c, val |-> v] : c \in Names, v \in Cells}

\* predicate(row): its truth value, or KeyError when the lambda reads a missing key
CallPred(p, row) ==
    IF p.kind = "const" THEN [status |-> "ok", val |-> p.val]
    ELSE IF ~HasKey(row, p.col) THEN [status |-> "KeyError", val |-> FALSE]
    ELSE [status |-> "ok", val |-> (Get(row, p.col) = p.val)]

\* func of reduce: list, and lambda g: list(g)[::-1]
ReduceFuncs == {"list", "reversed"}

Reverse(q) == [i \in 1..Len(q) |-> q[Len(q) + 1 - i]]

CallReduceFunc(f, values) == IF f = "list" THEN values ELSE Reverse(values)

----------------------------------------------------------------------------
\* DataFrame

NoCall == [op |-> "none", recv |-> 0, status |-> "ok", ret |-> 0, val |-> <<>>]

Raised(op, s, exc) == [op |-> op, recv |-> s, status |-> exc, ret |-> 0, val |-> <<>>]

Returned(op, s, ret, val) == [op |-> op, recv |-> s, status |-> "ok", ret |-> ret, val |-> val]

FrameIds == 1..Len(frames)

\* No file has been written.
NoFile == [exists |-> FALSE, text |-> <<>>]

\* The row dictionaries of frame s, in order.
RowsOf(h, fr) == [i \in 1..Len(fr.data) |-> h[fr.data[i]]]

\* Mutant of ColumnsOfFirst: the columns are read off the last row.
ColumnsOfLast(h, data) == Keys(h[data[Len(data)]])

\* __init__: self.data = data; self.columns = list(data[0].keys())
ColumnsOfFirst(h, data) == Keys(h[data[1]])

\* Mutant of DataFrameInit: no rows give a frame without columns.
DataFrameInitLenient(h, data) ==
    IF Len(data) = 0 THEN [status |-> "ok", data |-> data, columns |-> <<>>]
    ELSE [status |-> "ok", data |-> data, columns |-> Keys(h[data[1]])]

DataFrameInit(h, data) ==
    IF Len(data) = 0 THEN [status |-> "IndexError", data |-> data, columns |-> <<>>]
    ELSE [status |-> "ok", data |-> data, columns |-> ColumnsOfFirst(h, data)]

\* A call that builds DataFrame(data=data) over the heap h and returns it, or
\* raises what __init__ raises and leaves nothing behind.
ReturnNew(op, s, h, data) ==
    LET fr == DataFrameInit(h, data) IN
    IF fr.status # "ok"
    THEN /\ last' = Raised(op, s, fr.status)
         /\ UNCHANGED <<heap, frames, origin>>
    ELSE /\ heap' = h
         /\ frames' = Append(frames, [data |-> fr.data, columns |-> fr.columns])
         /\ origin' = Append(origin, [from |-> s, via |-> op])
         /\ last' = Returned(op, s, Len(frames) + 1, <<>>)

\* The rows a caller builds: the same key set in every row, each row with
\* its own insertion order and its own dictionary object.
Orders(ks) == {q \in UNION {[1..n -> ks] : n \in 0..Cardinality(Names)} :
                 /\ Len(q) = Cardinality(ks)
                 /\ \A i, j \in 1..Len(q) : q[i] = q[j] => i = j}

DictsOver(ks, cells) ==
    UNION {{[i \in 1..Len(q) |-> <<q[i], f[q[i]]>>] : f \in [ks -> cells]} : q \in Orders(ks)}

InputRows == UNION {[1..n -> DictsOver(ks, Cells)] : n \in 0..MaxRows, ks \in SUBSET Names}

\* The caller constructs the first frame; the frames after it are the ones
\* the calls below return, up to MaxStores in all.
Construct(rows) ==
    /\ frames = <<>>
    /\ ReturnNew("init", 0, heap \o rows, [i \in 1..Len(rows) |-> Len(heap) + i])
    /\ UNCHANGED file

\* apply: for c in columns: for row in self.data: row[c] = func(row[c])
\* The heap after the loops, and whether a KeyError stopped them.
RECURSIVE ApplyFrom(_, _, _, _, _, _)
ApplyFrom(h, data, f, cols, ci, ri) ==
    IF ci > Len(cols) THEN [heap |-> h, status |-> "ok"]
    ELSE IF ri > Len(data) THEN ApplyFrom(h, data, f, cols, ci + 1, 1)
    ELSE LET row == h[data[ri]]
             c == cols[ci]
         IN IF ~HasKey(row, c) THEN [heap |-> h, status |-> "KeyError"]
            ELSE ApplyFrom([h EXCEPT ![data[ri]] = SetItem(row, c, CallFunc(f, Get(row, c)))],
                           data, f, cols, ci, ri + 1)

\* Mutant of ApplyLoops: the row loop stops one row short.
ApplyLoopsShort(h, data, f, cols) == ApplyFrom(h, SubSeq(data, 1, Len(data) - 1), f, cols, 1, 1)

ApplyLoops(h, data, f, cols) == ApplyFrom(h, data, f, cols, 1, 1)

ColLists == UNION {[1..n -> Names] : n \in 0..Cardinality(Names)}

Apply(s, f, cols) ==
    LET r == ApplyLoops(heap, frames[s].data, f, cols) IN
    /\ heap' = r.heap
    /\ last' = IF r.status = "ok" THEN Returned("apply", s, s, <<>>)
               ELSE Raised("apply", s, r.status)
    /\ UNCHANGED <<frames, origin, file>>

\* reduce: func(row[column] for row in self.data)
\* The generator's items up to the first row that lacks the column.
RECURSIVE ColumnFrom(_, _, _, _)
ColumnFrom(rows, col, i, acc) ==
    IF i > Len(rows) THEN [status |-> "ok", values |-> acc]
    ELSE IF ~HasKey(rows[i], col) THEN [status |-> "KeyError", values |-> acc]
    ELSE ColumnFrom(rows, col, i + 1, Append(acc, Get(rows[i], col)))

ColumnValues(rows, col) == ColumnFrom(rows, col, 1, <<>>)

Reduce(s, f, col) ==
    LET g == ColumnValues(RowsOf(heap, frames[s]), col) IN
    /\ last' = IF g.status = "ok"
               THEN Returned("reduce", s, 0, CallReduceFunc(f, g.values))
               ELSE Raised("reduce", s, g.status)
    /\ UNCHANGED <<heap, frames, origin, file>>

\* where: [{c: row[c] for c in self.columns} for row in self.data if predicate(row)]
RECURSIVE WhereFrom(_, _, _, _, _)
WhereFrom(rows, columns, p, i, acc) ==
    IF i > Len(rows) THEN [status |-> "ok", subset |-> acc]
    ELSE LET t == CallPred(p, rows[i]) IN
         IF t.status # "ok" THEN [status |-> t.status, subset |-> <<>>]
         ELSE IF ~t.val THEN WhereFrom(rows, columns, p, i + 1, acc)
         ELSE LET d == DictComp(columns, rows[i]) IN
              IF d.status # "ok" THEN [status |-> d.status, subset |-> <<>>]
              ELSE WhereFrom(rows, columns, p, i + 1, Append(acc, d.dict))

\* Mutant of WhereSubset: the predicate is not consulted.
WhereSubsetAll(rows, columns, p) ==
    WhereFrom(rows, columns, [kind |-> "const", val |-> TRUE], 1, <<>>)

WhereSubset(rows, columns, p) == WhereFrom(rows, columns, p, 1, <<>>)

\* The references of k dictionaries allocated after those of h.
Fresh(h, k) == [i \in 1..k |-> Len(h) + i]

\* Mutant of Where: the rows that pass are kept as they are, not copied.
WhereSharing(s, p) ==
    LET rows == RowsOf(heap, frames[s])
        r == WhereSubset(rows, frames[s].columns, p)
        pass == SelectSeq([i \in 1..Len(rows) |-> i], LAMBDA i : CallPred(p, rows[i]).val)
    IN
    /\ Len(frames) < MaxStores
    /\ IF r.status # "ok"
       THEN /\ last' = Raised("where", s, r.status)
            /\ UNCHANGED <<heap, frames, origin>>
       ELSE ReturnNew("where", s, heap, [i \in 1..Len(pass) |-> frames[s].data[pass[i]]])
    /\ UNCHANGED file

Where(s, p) ==
    LET r == WhereSubset(RowsOf(heap, frames[s]), frames[s].columns, p) IN
    /\ Len(frames) < MaxStores
    /\ IF r.status # "ok"
       THEN /\ last' = Raised("where", s, r.status)
            /\ UNCHANGED <<heap, frames, origin>>
       ELSE ReturnNew("where", s, heap \o r.subset, Fresh(heap, Len(r.subset)))
    /\ UNCHANGED file

\* __len__
FrameLen(fr) == Len(fr.data)

\* list[slice]: an optional bound is <<>> (None) or <<i>>.
Opt(S) == {<<>>} \cup {<<i>> : i \in S}

SliceStep(step) == IF step = <<>> THEN 1 ELSE step[1]

\* PySlice_AdjustIndices: a bound brought into range, 0-based
AdjustBound(v, n, step) ==
    IF v < 0
    THEN (IF v + n < 0 THEN (IF step < 0 THEN -1 ELSE 0) ELSE v + n)
    ELSE (IF v >= n THEN (IF step < 0 THEN n - 1 ELSE n) ELSE v)

SliceStart(start, n, step) ==
    IF start = <<>> THEN (IF step < 0 THEN n - 1 ELSE 0) ELSE AdjustBound(start[1], n, step)

SliceStop(stop, n, step) ==
    IF stop = <<>> THEN (IF step < 0 THEN -1 ELSE n) ELSE AdjustBound(stop[1], n, step)

\* The 1-based positions i, i + step, ... short of stop
RECURSIVE SliceWalk(_, _, _, _)
SliceWalk(i, stop, step, acc) ==
    IF (step > 0 /\ i < stop) \/ (step < 0 /\ i > stop)
    THEN SliceWalk(i + step, stop, step, Append(acc, i + 1))
    ELSE acc

SlicePositions(n, start, stop, step) ==
    LET st == SliceStep(step) IN
    SliceWalk(SliceStart(start, n, st), SliceStop(stop, n, st), st, <<>>)

SliceBounds == Opt(-(MaxRows + 1)..(MaxRows + 1))
SliceSteps == Opt(-2..2)
SliceKeys == SliceBounds \X SliceBounds \X SliceSteps

\* What list[slice] does with a slice: ValueError for a step of 0, or the
\* positions it selects.
SliceOutcome(n, k) ==
    IF SliceStep(k[3]) = 0 THEN [status |-> "ValueError", pos |-> <<>>]
    ELSE [status |-> "ok", pos |-> SlicePositions(n, k[1], k[2], k[3])]

\* One slice for each thing a slice can do to a list of n items.
SliceTable ==
    [n \in 0..(MaxRows + 1) |->
       {CHOOSE k \in SliceKeys : SliceOutcome(n, k) = o :
          o \in {SliceOutcome(n, k) : k \in SliceKeys}}]

SomeSlices(n) == SliceTable[n]

\* __getitem__, key a slice
GetItemSlice(s, start, stop, step) ==
    LET data == frames[s].data
        pos == SlicePositions(Len(data), start, stop, step)
    IN
    /\ Len(frames) < MaxStores
    /\ IF SliceStep(step) = 0
       THEN /\ last' = Raised("getitem_slice", s, "ValueError")
            /\ UNCHANGED <<heap, frames, origin>>
       ELSE ReturnNew("getitem_slice", s, heap, [i \in 1..Len(pos) |-> data[pos[i]]])
    /\ UNCHANGED file

IntKeys == -(MaxRows + 1)..MaxRows

\* Mutant of ListPosition: positions are counted from the end of the list.
ListPositionFromEnd(n, i) ==
    LET j == IF i < 0 THEN i + n ELSE i IN
    IF j < 0 \/ j >= n THEN 0 ELSE n - j

\* list[int]: the 1-based position, or 0 for IndexError
ListPosition(n, i) ==
    LET j == IF i < 0 THEN i + n ELSE i IN
    IF j < 0 \/ j >= n THEN 0 ELSE j + 1

\* __getitem__, key an int
GetItemInt(s, i) ==
    LET data == frames[s].data
        pos == ListPosition(Len(data), i)
    IN
    /\ Len(frames) < MaxStores
    /\ IF pos = 0
       THEN /\ last' = Raised("getitem_int", s, "IndexError")
            /\ UNCHANGED <<heap, frames, origin>>
       ELSE ReturnNew("getitem_int", s, heap, <<data[pos]>>)
    /\ UNCHANGED file

\* [{c: row[c] for c in key} for row in self.data]
RECURSIVE ProjectFrom(_, _, _, _)
ProjectFrom(rows, key, i, acc) ==
    IF i > Len(rows) THEN [status |-> "ok", subset |-> acc]
    ELSE LET d == DictComp(key, rows[i]) IN
         IF d.status # "ok" THEN [status |-> d.status, subset |-> <<>>]
         ELSE ProjectFrom(rows, key, i + 1, Append(acc, d.dict))

\* Mutant of ProjectSubset: the names are taken in the opposite order.
ProjectSubsetReversed(rows, key) == ProjectFrom(rows, Reverse(key), 1, <<>>)

ProjectSubset(rows, key) == ProjectFrom(rows, key, 1, <<>>)

\* __getitem__, key a list of column names
GetItemList(s, key) ==
    LET r == ProjectSubset(RowsOf(heap, frames[s]), key) IN
    /\ Len(frames) < MaxStores
    /\ IF r.status # "ok"
       THEN /\ last' = Raised("getitem_list", s, r.status)
            /\ UNCHANGED <<heap, frames, origin>>
       ELSE ReturnNew("getitem_list", s, heap \o r.subset, Fresh(heap, Len(r.subset)))
    /\ UNCHANGED file

\* __getitem__, key of any other type (a float, a str)
OtherKeys == {"float", "str"}

GetItemOther(s, keytype) ==
    /\ last' = Raised("getitem_other", s, "TypeError")
    /\ UNCHANGED <<heap, frames, origin, file>>

----------------------------------------------------------------------------
\* The csv module as to_csv and read_csv use it: delimiter ",", quotechar '"',
\* doublequote, QUOTE_MINIMAL, lineterminator "\r\n"; files opened in text
\* mode with the default newline=None.

Delimiter == ","
QuoteChar == "\""
LineTerminator == <<"\r", "\n">>

RECURSIVE Concat(_)
Concat(parts) == IF parts = <<>> THEN <<>> ELSE Head(parts) \o Concat(Tail(parts))

IsIn(c, q) == \E i \in 1..Len(q) : q[i] = c

\* writer: a field is quoted when it holds the delimiter, the quote character or
\* a character of the line terminator, or is the empty only field of its record;
\* a quote character inside it is doubled.
NeedsQuotes(field, only) ==
    \/ only /\ field = <<>>
    \/ \E i \in 1..Len(field) :
          field[i] = Delimiter \/ field[i] = QuoteChar \/ IsIn(field[i], LineTerminator)

WriteField(field, only) ==
    LET body == Concat([i \in 1..Len(field) |->
                          IF field[i] = QuoteChar THEN <<QuoteChar, QuoteChar>>
                          ELSE <<field[i]>>])
    IN IF NeedsQuotes(field, only) THEN <<QuoteChar>> \o body \o <<QuoteChar>> ELSE body

\* writer.writerow
WriteRow(fields) ==
    Concat([i \in 1..Len(fields) |->
              (IF i > 1 THEN <<Delimiter>> ELSE <<>>) \o WriteField(fields[i], Len(fields) = 1)])
    \o LineTerminator

\* DictWriter._dict_to_list: ValueError for a key outside fieldnames, "" for a
\* missing one
DictToList(fieldnames, row) ==
    IF \E k \in KeySet(row) : ~IsIn(k, fieldnames)
    THEN [status |-> "ValueError", fields |-> <<>>]
    ELSE [status |-> "ok",
          fields |-> [i \in 1..Len(fieldnames) |->
                        IF HasKey(row, fieldnames[i]) THEN Get(row, fieldnames[i]) ELSE <<>>]]

\* writer.writeheader(); writer.writerows(self.data): the text written, which
\* stops short at the first row that raises
RECURSIVE WriteRowsFrom(_, _, _, _)
WriteRowsFrom(fieldnames, rows, i, text) ==
    IF i > Len(rows) THEN [status |-> "ok", text |-> text]
    ELSE LET r == DictToList(fieldnames, rows[i]) IN
         IF r.status # "ok" THEN [status |-> r.status, text |-> text]
         ELSE WriteRowsFrom(fieldnames, rows, i + 1, text \o WriteRow(r.fields))

WriteCsv(fieldnames, rows) == WriteRowsFrom(fieldnames, rows, 1, WriteRow(fieldnames))

\* to_csv
ToCsv(s) ==
    LET w == WriteCsv(frames[s].columns, RowsOf(heap, frames[s])) IN
    /\ file' = [exists |-> TRUE, text |-> w.text]
    /\ last' = IF w.status = "ok" THEN Returned("to_csv", s, 0, <<>>)
               ELSE Raised("to_csv", s, w.status)
    /\ UNCHANGED <<heap, frames, origin>>

\* open(file_name, "r"): universal newlines, "\r\n" and "\r" are read as "\n"
RECURSIVE UniversalNewlines(_)
UniversalNewlines(text) ==
    IF text = <<>> THEN <<>>
    ELSE IF Head(text) = "\r"
    THEN <<"\n">> \o UniversalNewlines(IF Len(text) > 1 /\ text[2] = "\n"
                                        THEN Tail(Tail(text)) ELSE Tail(text))
    ELSE <<Head(text)>> \o UniversalNewlines(Tail(text))

\* reader: the records of a text whose line ends are "\n".
\* st is the parser state, field and rec the field and record being read.
RECURSIVE ParseFrom(_, _, _, _, _, _)
ParseFrom(text, i, st, field, rec, recs) ==
    IF i > Len(text)
    THEN IF st = "START_RECORD" THEN recs ELSE Append(recs, Append(rec, field))
    ELSE LET c == text[i] IN
    IF st = "IN_QUOTED_FIELD"
    THEN IF c = QuoteChar
         THEN ParseFrom(text, i + 1, "QUOTE_IN_QUOTED_FIELD", field, rec, recs)
         ELSE ParseFrom(text, i + 1, st, Append(field, c), rec, recs)
    ELSE IF c = "\n"
    THEN IF st = "START_RECORD"
         THEN ParseFrom(text, i + 1, "START_RECORD", <<>>, <<>>, Append(recs, <<>>))
         ELSE ParseFrom(text, i + 1, "START_RECORD", <<>>, <<>>, Append(recs, Append(rec, field)))
    ELSE IF c = Delimiter
    THEN ParseFrom(text, i + 1, "START_FIELD", <<>>, Append(rec, field), recs)
    ELSE IF c = QuoteChar /\ st \in {"START_RECORD", "START_FIELD"}
    THEN ParseFrom(text, i + 1, "IN_QUOTED_FIELD", field, rec, recs)
    ELSE IF st = "QUOTE_IN_QUOTED_FIELD" /\ c = QuoteChar
    THEN ParseFrom(text, i + 1, "IN_QUOTED_FIELD", Append(field, c), rec, recs)
    ELSE ParseFrom(text, i + 1, "IN_FIELD", Append(field, c), rec, recs)

ParseCsv(text) == ParseFrom(text, 1, "START_RECORD", <<>>, <<>>, <<>>)

\* None, as a dictionary key or value
NoneCell == <<"None">>

Min(a, b) == IF a < b THEN a ELSE b

\* DictReader.__next__: dict(zip(fieldnames, row)), the surplus fields under the
\* key None, the missing ones None
RECURSIVE ZipFrom(_, _, _, _)
ZipFrom(fieldnames, row, i, acc) ==
    IF i > Min(Len(fieldnames), Len(row)) THEN acc
    ELSE ZipFrom(fieldnames, row, i + 1, SetItem(acc, fieldnames[i], row[i]))

RECURSIVE RestFrom(_, _, _)
RestFrom(fieldnames, i, acc) ==
    IF i > Len(fieldnames) THEN acc
    ELSE RestFrom(fieldnames, i + 1, SetItem(acc, fieldnames[i], NoneCell))

ReaderDict(fieldnames, row) ==
    LET d == ZipFrom(fieldnames, row, 1, <<>>) IN
    IF Len(fieldnames) < Len(row)
    THEN SetItem(d, NoneCell, SubSeq(row, Len(fieldnames) + 1, Len(row)))
    ELSE RestFrom(fieldnames, Len(row) + 1, d)

\* [row for row in reader]: the first record is the header, empty records are
\* skipped
ReaderRows(recs) ==
    IF recs = <<>> THEN <<>>
    ELSE LET body == SelectSeq(Tail(recs), LAMBDA r : r # <<>>) IN
         [i \in 1..Len(body) |-> ReaderDict(Head(recs), body[i])]

\* read_csv
ReadCsv ==
    /\ Len(frames) < MaxStores
    /\ IF ~file.exists
       THEN /\ last' = Raised("read_csv", 0, "FileNotFoundError")
            /\ UNCHANGED <<heap, frames, origin>>
       ELSE LET rows == ReaderRows(ParseCsv(UniversalNewlines(file.text))) IN
            ReturnNew("read_csv", 0, heap \o rows, Fresh(heap, Len(rows)))
    /\ UNCHANGED file

Init ==
    /\ heap = <<>>
    /\ frames = <<>>
    /\ origin = <<>>
    /\ last = NoCall
    /\ file = NoFile

Next ==
    \/ \E rows \in InputRows : Construct(rows)
    \/ \E s \in FrameIds, f \in Funcs, cols \in ColLists : Apply(s, f, cols)
    \/ \E s \in FrameIds, f \in ReduceFuncs, col \in Names : Reduce(s, f, col)
    \/ \E s \in FrameIds, p \in Preds : Where(s, p)
    \/ \E s \in FrameIds : \E k \in SomeSlices(Len(frames[s].data)) :
          GetItemSlice(s, k[1], k[2], k[3])
    \/ \E s \in FrameIds, i \in IntKeys : GetItemInt(s, i)
    \/ \E s \in FrameIds, key \in ColLists : GetItemList(s, key)
    \/ \E s \in FrameIds, keytype \in OtherKeys : GetItemOther(s, keytype)

Spec == Init /\ [][Next]_vars

----------------------------------------------------------------------------
\* The CSV round trip: a frame whose cells need quoting is written and read back.

CsvCells == {<<>>, <<"x">>, <<"x", "X">>, <<",">>, <<"\"">>, <<"x", "\"">>,
             <<"\n">>, <<"\r">>, <<"\r", "\n">>, <<"x", "\r">>}

CsvInputRows ==
    UNION {[1..n -> DictsOver(ks, CsvCells)] : n \in 1..MaxRows, ks \in (SUBSET Names) \ {{}}}

\* The state after DataFrame(rows) returned.
Constructed(rows) ==
    /\ heap = rows
    /\ frames = <<[data |-> Fresh(<<>>, Len(rows)), columns |-> ColumnsOfFirst(rows, <<1>>)]>>
    /\ origin = <<[from |-> 0, via |-> "init"]>>
    /\ last = Returned("init", 0, 1, <<>>)
    /\ file = NoFile

InitCsv == \E rows \in CsvInputRows : Constructed(rows)

NextCsv ==
    \/ \E s \in FrameIds : ToCsv(s)
    \/ ReadCsv

SpecCsv == InitCsv /\ [][NextCsv]_vars

----------------------------------------------------------------------------
\* A numeric column and the call of mean on it.

NumCells == {<<"1">>, <<"3">>, <<"n", "a", "n">>}

NumInputRows ==
    UNION {[1..n -> DictsOver({c}, NumCells)] : n \in 1..(MaxRows + 1), c \in Names}

\* The attributes class DataFrame defines.
Methods == {"__init__", "apply", "reduce", "where", "to_csv", "__len__", "__getitem__",
            "__repr__", "data", "columns"}

\* T.mean(column): the attribute lookup comes first
Mean(s, col) ==
    /\ "mean" \notin Methods
    /\ last' = Raised("mean", s, "AttributeError")
    /\ UNCHANGED <<heap, frames, origin, file>>

InitMean == \E rows \in NumInputRows : Constructed(rows)

NextMean ==
    \/ \E s \in FrameIds, col \in Names : Mean(s, col)
    \/ \E s \in FrameIds, f \in ReduceFuncs, col \in Names : Reduce(s, f, col)

SpecMean == InitMean /\ [][NextMean]_vars

----------------------------------------------------------------------------
\* Properties.

\* The names in a list.
Range(q) == {q[i] : i \in 1..Len(q)}

Distinct(q) == \A i, j \in 1..Len(q) : q[i] = q[j] => i = j

\* The cell values of a row, whatever the order of its keys.
ValuesOf(row) == [k \in KeySet(row) |-> Get(row, k)]

\* The cell values of every row of frame s, in row order.
CellsOf(h, fr) == [i \in 1..Len(fr.data) |-> ValuesOf(h[fr.data[i]])]

\* The predicate is defined on every row of the frame.
Defined(p, rows) == \A i \in 1..Len(rows) : CallPred(p, rows[i]).status = "ok"

\* The positions of the rows that satisfy the predicate, ascending.
Satisfying(p, rows) ==
    SelectSeq([i \in 1..Len(rows) |-> i], LAMBDA i : CallPred(p, rows[i]).val)

\* d was derived from t by the library, directly or through other frames.
RECURSIVE DerivedFrom(_, _)
DerivedFrom(d, t) ==
    /\ origin[d].from # 0
    /\ origin[d].from = t \/ DerivedFrom(origin[d].from, t)

\* C1: where(p), for a predicate some row satisfies, returns exactly the rows
\* that satisfy p, with their column values, in the order they have in T.
C1_WhereSelects ==
    [][\A s \in FrameIds, p \in Preds :
          LET T == RowsOf(heap, frames[s])
              sel == Satisfying(p, T)
          IN (last'.op = "where" /\ last'.recv = s /\ Defined(p, T) /\ sel # <<>>
                /\ Where(s, p)) =>
               /\ last'.status = "ok"
               /\ LET W == RowsOf(heap', frames'[last'.ret]) IN
                  /\ Len(W) = Len(sel)
                  /\ \A k \in 1..Len(sel) :
                        /\ KeySet(W[k]) = Range(frames[s].columns)
                        /\ \A c \in Range(frames[s].columns) :
                              Get(W[k], c) = Get(T[sel[k]], c)]_vars

\* A where that dropped a row and kept another.
C1_Witness ==
    /\ last.op = "where"
    /\ last.status = "ok"
    /\ Len(frames[last.recv].data) = 2
    /\ Len(frames[last.ret].data) = 1
    /\ ValuesOf(heap[frames[last.ret].data[1]]) = ValuesOf(heap[frames[last.recv].data[2]])
    /\ ValuesOf(heap[frames[last.recv].data[1]]) # ValuesOf(heap[frames[last.recv].data[2]])

\* C2: the frame where returns is another instance with its own rows: apply
\* on either of the two leaves the cells of the other as they were.
C2_WhereCopies ==
    /\ [][\A s \in FrameIds, p \in Preds :
             (last'.op = "where" /\ last'.recv = s /\ last'.status = "ok" /\ Where(s, p)) =>
                /\ last'.ret \notin FrameIds
                /\ Range(frames'[last'.ret].data) \cap Range(frames[s].data) = {}]_vars
    /\ [](\A s \in FrameIds, t \in FrameIds :
            (\/ origin[t] = [from |-> s, via |-> "where"]
             \/ origin[s] = [from |-> t, via |-> "where"]) =>
               \A f \in Funcs, cols \in ColLists :
                  CellsOf(ApplyLoops(heap, frames[s].data, f, cols).heap, frames[t])
                    = CellsOf(heap, frames[t]))
    /\ [][last'.op = "apply" => frames' = frames]_vars

\* T.where(lambda r: True) was followed by an apply on T that changed T: the
\* copy still holds the old values.
C2_Witness ==
    /\ last.op = "apply"
    /\ last.status = "ok"
    /\ \E t \in FrameIds :
          /\ origin[t] = [from |-> last.recv, via |-> "where"]
          /\ Len(frames[t].data) = Len(frames[last.recv].data)
          /\ CellsOf(heap, frames[t]) # CellsOf(heap, frames[last.recv])

\* What the loops of apply(f, cols) make of the rows of a frame: the cells of
\* the named columns hold f(old value), and nothing else has changed.
ApplyPost(fr, f, cols) ==
    LET r == ApplyLoops(heap, fr.data, f, cols) IN
    /\ r.status = "ok"
    /\ Len(r.heap) = Len(heap)
    /\ \A i \in 1..Len(fr.data) :
          LET old == heap[fr.data[i]]
              new == r.heap[fr.data[i]]
          IN /\ Keys(new) = Keys(old)
             /\ \A k \in KeySet(old) :
                   Get(new, k) = IF k \in Range(cols) THEN CallFunc(f, Get(old, k))
                                 ELSE Get(old, k)

\* An apply that raises nothing returns its receiver, and apply changes
\* neither the rows a frame holds nor its columns.
ApplyReturnsSelf ==
    last'.op = "apply" =>
       /\ frames' = frames
       /\ last'.status = "ok" => last'.ret = last'.recv

\* C3 as stated: for every list of column names of T, apply leaves f(old value)
\* in the named columns and changes nothing else.
C3_ApplyAnyList ==
    /\ [](\A s \in FrameIds, f \in Funcs, cols \in ColLists :
            Range(cols) \subseteq Range(frames[s].columns) => ApplyPost(frames[s], f, cols))
    /\ [][ApplyReturnsSelf]_vars

\* C3, amended: for every list of distinct column names of T, apply returns T,
\* leaves f(old value) in the named columns and changes nothing else.
C3_ApplyDistinct ==
    /\ [](\A s \in FrameIds, f \in Funcs, cols \in ColLists :
            (Distinct(cols) /\ Range(cols) \subseteq Range(frames[s].columns)) =>
               ApplyPost(frames[s], f, cols))
    /\ [][ApplyReturnsSelf]_vars

\* apply(str.upper, ["a"]) returned on a copy of a frame of two rows and two
\* columns: column a of the copy is upper case, the rest is as in the original.
C3_Witness ==
    /\ last.op = "apply"
    /\ last.status = "ok"
    /\ last.ret = last.recv
    /\ Len(frames) = 2
    /\ last.recv = 2
    /\ origin[2] = [from |-> 1, via |-> "where"]
    /\ Len(frames[1].data) = 2
    /\ Len(frames[2].data) = 2
    /\ frames[2].columns = <<<<"a">>, <<"b">>>>
    /\ \A i \in 1..2 :
          /\ Get(heap[frames[1].data[i]], <<"a">>) = <<"x">>
          /\ Get(heap[frames[2].data[i]], <<"a">>) = <<"X">>
          /\ Get(heap[frames[1].data[i]], <<"b">>) = <<"x">>
          /\ Get(heap[frames[2].data[i]], <<"b">>) = <<"x">>

\* C4: apply on a frame changes no cell of a frame the library derived from
\* it, nor of a frame it was derived from.
C4_NoSharedRows ==
    [][\A s \in FrameIds, f \in Funcs, cols \in ColLists :
          (last'.op = "apply" /\ last'.recv = s /\ Apply(s, f, cols)) =>
             \A t \in FrameIds :
                (DerivedFrom(t, s) \/ DerivedFrom(s, t)) =>
                   CellsOf(heap', frames'[t]) = CellsOf(heap, frames[t])]_vars

\* C5: no frame without rows exists; construction from no rows, a where no
\* row satisfies and a slice that selects nothing raise IndexError and change
\* nothing.
C5_NeverEmpty ==
    /\ [](\A s \in FrameIds : FrameLen(frames[s]) >= 1)
    /\ [][(last'.op = "init" /\ Construct(<<>>)) =>
             last'.status = "IndexError" /\ UNCHANGED <<heap, frames>>]_vars
    /\ [][\A s \in FrameIds, p \in Preds :
             LET T == RowsOf(heap, frames[s]) IN
             (last'.op = "where" /\ last'.recv = s /\ Defined(p, T)
                /\ Satisfying(p, T) = <<>> /\ Where(s, p)) =>
                last'.status = "IndexError" /\ UNCHANGED <<heap, frames>>]_vars
    /\ [][\A s \in FrameIds :
             (last'.op = "getitem_slice" /\ last'.recv = s) =>
                \A k \in SliceKeys :
                   (/\ SliceStep(k[3]) # 0
                    /\ SlicePositions(Len(frames[s].data), k[1], k[2], k[3]) = <<>>
                    /\ GetItemSlice(s, k[1], k[2], k[3])) =>
                      last'.status = "IndexError" /\ UNCHANGED <<heap, frames>>]_vars

\* A slice of a frame of two rows raised IndexError.
C5_Witness ==
    /\ last.op = "getitem_slice"
    /\ last.status = "IndexError"
    /\ Len(frames) = 1
    /\ Len(frames[last.recv].data) = 2

\* What T[i] returns or raises, but for the columns of the result.
IndexPost(s, i) ==
    LET n == Len(frames[s].data) IN
    /\ (0 <= i /\ i < n) =>
          /\ last'.status = "ok"
          /\ last'.ret \notin FrameIds
          /\ Len(frames'[last'.ret].data) = 1
          /\ ValuesOf(heap'[frames'[last'.ret].data[1]]) = ValuesOf(heap[frames[s].data[i + 1]])
    /\ (i >= n \/ i < -n) =>
          last'.status = "IndexError" /\ UNCHANGED <<heap, frames>>

\* C6 as stated: T[i] is a frame of one row, row i of T, whose columns equal
\* T.columns; an index out of range raises IndexError.
C6_IndexKeepsColumns ==
    [][\A s \in FrameIds, i \in IntKeys :
          (last'.op = "getitem_int" /\ last'.recv = s /\ GetItemInt(s, i)) =>
             /\ IndexPost(s, i)
             /\ (0 <= i /\ i < Len(frames[s].data)) =>
                   frames'[last'.ret].columns = frames[s].columns]_vars

\* C6, amended: T[i] is a frame of one row, row i of T, whose columns are the
\* keys of that row in the row's own order, the same names as T.columns; an
\* index out of range raises IndexError and changes nothing.
C6_IndexWrapsRow ==
    [][\A s \in FrameIds, i \in IntKeys :
          (last'.op = "getitem_int" /\ last'.recv = s /\ GetItemInt(s, i)) =>
             /\ IndexPost(s, i)
             /\ (0 <= i /\ i < Len(frames[s].data)) =>
                   /\ frames'[last'.ret].columns = Keys(heap[frames[s].data[i + 1]])
                   /\ Range(frames'[last'.ret].columns) = Range(frames[s].columns)]_vars

\* T[1] returned the second row of T, whose keys are in another order than
\* those of the first.
C6_Witness ==
    /\ last.op = "getitem_int"
    /\ last.status = "ok"
    /\ Len(frames[last.recv].data) = 2
    /\ frames[last.ret].data = <<frames[last.recv].data[2]>>
    /\ frames[last.ret].columns # frames[last.recv].columns

\* C7: T[cols], for distinct column names of T in any order, is a new frame
\* of as many rows, with columns cols and in every row the values of T for
\* exactly those names; a name absent from a row raises KeyError.
C7_Projection ==
    [][\A s \in FrameIds, key \in ColLists :
          LET T == RowsOf(heap, frames[s]) IN
          (last'.op = "getitem_list" /\ last'.recv = s /\ GetItemList(s, key)) =>
             /\ (Distinct(key) /\ Range(key) \subseteq Range(frames[s].columns)) =>
                   /\ last'.status = "ok"
                   /\ last'.ret \notin FrameIds
                   /\ frames'[last'.ret].columns = key
                   /\ LET P == RowsOf(heap', frames'[last'.ret]) IN
                      /\ Len(P) = Len(T)
                      /\ \A k \in 1..Len(T) :
                            /\ KeySet(P[k]) = Range(key)
                            /\ \A c \in Range(key) : Get(P[k], c) = Get(T[k], c)
                   /\ CellsOf(heap', frames'[s]) = CellsOf(heap, frames[s])
             /\ (\E k \in 1..Len(T) : ~(Range(key) \subseteq KeySet(T[k]))) =>
                   last'.status = "KeyError" /\ UNCHANGED <<heap, frames>>]_vars

\* A projection returned the two columns of T in the other order.
C7_Witness ==
    /\ last.op = "getitem_list"
    /\ last.status = "ok"
    /\ Len(frames[last.recv].columns) = 2
    /\ Len(frames[last.recv].data) = 2
    /\ frames[last.ret].columns = Reverse(frames[last.recv].columns)

\* C10: in every frame the keys of every row are the names in columns, and
\* columns is the key order of the first row; no call changes the columns of
\* an existing frame.
C10_Schema ==
    /\ [](\A s \in FrameIds :
            /\ \A i \in 1..Len(frames[s].data) :
                  KeySet(heap[frames[s].data[i]]) = Range(frames[s].columns)
            /\ frames[s].columns = Keys(heap[frames[s].data[1]]))
    /\ [][\A s \in FrameIds : frames'[s].columns = frames[s].columns]_vars

\* An apply ran on a projection whose rows have other keys than those of the
\* frame it was taken from.
C10_Witness ==
    /\ last.op = "apply"
    /\ last.status = "ok"
    /\ Len(frames) = 2
    /\ origin[2].via = "getitem_list"
    /\ last.recv = 2
    /\ Len(frames[2].columns) = 1
    /\ Len(frames[1].columns) = 2
    /\ Len(frames[1].data) = 2
    /\ Keys(heap[frames[1].data[1]]) # Keys(heap[frames[1].data[2]])

\* C8: a frame of string cells written by to_csv and read back by read_csv
\* comes back with the same columns, the same number of rows and the same
\* string in every cell; to_csv changes nothing in the frame.
C8_RoundTrip ==
    /\ [][(last.op = "to_csv" /\ last.status = "ok" /\ last'.op = "read_csv") =>
             /\ last'.status = "ok"
             /\ frames'[last'.ret].columns = frames[last.recv].columns
             /\ Len(frames'[last'.ret].data) = Len(frames[last.recv].data)
             /\ CellsOf(heap', frames'[last'.ret]) = CellsOf(heap, frames[last.recv])]_vars
    /\ [][last'.op = "to_csv" => UNCHANGED <<heap, frames>>]_vars

\* The number a cell of a numeric column stands for.
NumberOf(cell) == IF cell = <<"1">> THEN 1 ELSE 3

RECURSIVE SumOf(_)
SumOf(cells) == IF cells = <<>> THEN 0 ELSE NumberOf(Head(cells)) + SumOf(Tail(cells))

\* C9: mean(column) returns the sum of the cells that are not "nan" over
\* their number (written <<sum, number>> here), and raises ZeroDivisionError
\* when every cell is "nan".
C9_MeanOffered ==
    [][\A s \in FrameIds, col \in Names :
          (last'.op = "mean" /\ col \in Range(frames[s].columns) /\ Mean(s, col)) =>
             LET kept == SelectSeq(ColumnValues(RowsOf(heap, frames[s]), col).values,
                                   LAMBDA v : v # <<"n", "a", "n">>)
             IN IF kept = <<>> THEN last'.status = "ZeroDivisionError"
                ELSE last'.status = "ok" /\ last'.val = <<SumOf(kept), Len(kept)>>]_vars

====
